---- MODULE Spec2Model ----
(***************************************************************************)
(* Universal Deep Research, TypeScript CDK infrastructure.                 *)
(*                                                                         *)
(* The model follows the CDK application (app.ts) statement by statement:  *)
(* it resolves the environment, constructs BedrockGatewayStack,            *)
(* UDRBackendStack and UDRFrontendStack, declares the stack dependencies   *)
(* and synthesizes.  The provisioning tool that applies the synthesized    *)
(* stacks (deploy / destroy) is modelled on top of the declared            *)
(* dependencies.  The frontend-only application constructs no stack and    *)
(* has nothing to provision; it is not part of the model.                  *)
(*                                                                         *)
(* Strings are sequences of pieces.  A piece is a literal or a deploy-time *)
(* token (an attribute of a resource that is only known once the resource  *)
(* exists); concatenating strings is concatenating the sequences.          *)
(***************************************************************************)
EXTENDS Integers, Sequences, FiniteSets, TLC

VARIABLES
    pc,             \* position in app.ts
    ctx,            \* CDK context values (--context key=value)
    penv,           \* process.env of the run of app.ts
    env,            \* cdk.Environment computed by app.ts
    gatewayStack,   \* BedrockGatewayStack, once constructed
    backendStack,   \* UDRBackendStack, once constructed
    frontendStack,  \* UDRFrontendStack, once constructed
    dependencies,   \* declared stack dependencies, <<dependent, dependency>>
    assembly,       \* result of app.synth()
    prevAssembly,   \* the assembly of the previous run of app.ts
    prevPenv,       \* process.env of the previous run of app.ts
    synthRuns,      \* number of completed runs of app.ts
    props,          \* UDRFrontendStackProps of a stand-alone construction
    mode,           \* what the provisioning tool is doing
    phase,          \* per unit: its progress in the current deployment
    live,           \* per unit: does it exist in the account
    attrs,          \* per unit: the resolved attribute of its endpoint
    deployed,       \* per unit: the environment baked in when provisioned
    removed,        \* units removed by the current teardown, in order
    deployRuns,     \* number of deployments started
    build,          \* the hosting platform's build of the frontend's main branch
    health          \* per unit: what the health probes of its service say

vars == <<pc, ctx, penv, env, gatewayStack, backendStack, frontendStack,
          dependencies, assembly, prevAssembly, prevPenv, synthRuns, props,
          mode, phase, live, attrs, deployed, removed, deployRuns,
          build, health>>

synthVars == <<pc, ctx, penv, env, gatewayStack, backendStack, frontendStack,
               dependencies, assembly, prevAssembly, prevPenv, synthRuns>>

deployVars == <<mode, phase, live, attrs, deployed, removed, deployRuns>>

-----------------------------------------------------------------------------
(* Values                                                                  *)

Undefined == [defined |-> FALSE, val |-> <<>>]

Some(v) == [defined |-> TRUE, val |-> v]

Lit(s) == Some(<<s>>)

RECURSIVE Flat(_)
Flat(s) == IF s = <<>> THEN "" ELSE Head(s) \o Flat(Tail(s))

\* JavaScript truthiness of an optional string
Truthy(o) == o.defined /\ Flat(o.val) # ""

\* a || b
OrElse(a, b) == IF Truthy(a) THEN a ELSE b

RECURSIVE SplitFrom(_, _, _)
SplitFrom(s, i, cur) ==
    IF i > Len(s) THEN <<cur>>
    ELSE IF s[i] = "/" THEN <<cur>> \o SplitFrom(s, i + 1, <<>>)
    ELSE SplitFrom(s, i + 1, Append(cur, s[i]))

\* s.split('/')
Split(s) == SplitFrom(s, 1, <<>>)

\* a[i] of a JavaScript array (0-based)
Index(a, i) == IF i + 1 <= Len(a) THEN Some(a[i + 1]) ELSE Undefined

GatewayDnsToken == "${Token[GatewayALB.DNSName]}"

BackendDnsToken == "${Token[BackendALB.DNSName]}"

AmplifyDomainToken == "${Token[UDRAmplifyApp.DefaultDomain]}"

AmplifyAppIdToken == "${Token[UDRAmplifyApp.AppId]}"

NoStack == [constructed |-> FALSE]

-----------------------------------------------------------------------------
(* UDRFrontendStack                                                        *)

BackendBaseUrl(p) == OrElse(p.backendUrl, Lit("http://localhost:8000")).val

DryRunFlag(p) == <<"true">>

environmentVariables(p) ==
    [NEXT_PUBLIC_BACKEND_BASE_URL |-> BackendBaseUrl(p),
     NEXT_PUBLIC_BACKEND_PORT |-> <<"80">>,
     NEXT_PUBLIC_API_VERSION |-> <<"v2">>,
     NEXT_PUBLIC_ENABLE_V2_API |-> <<"true">>,
     NEXT_PUBLIC_DRY_RUN |-> DryRunFlag(p)]
    @@ ("_LIVE_UPDATES" :>
        <<"[{\"name\":\"Next.js version\",\"pkg\":\"next\",\"type\":\"npm\",\"version\":\"latest\"}]">>)

buildSpec(p) ==
    [version |-> "1.0",
     preBuild |-> <<"cd frontend", "npm ci --cache .npm --prefer-offline">>,
     build |-> <<"npm run build">>,
     baseDirectory |-> "frontend/.next",
     cachePaths |-> <<"frontend/node_modules/**/*", "frontend/.next/cache/**/*">>,
     variables |-> environmentVariables(p)]

\* || in place of &&
IsConnectedEitherSupplied(p) == Truthy(p.githubRepo) \/ Truthy(p.githubToken)

IsConnected(p) == Truthy(p.githubRepo) /\ Truthy(p.githubToken)

GitHubSourceCodeProvider(p) ==
    [owner |-> Index(Split(p.githubRepo.val), 0),
     repository |-> Index(Split(p.githubRepo.val), 1),
     oauthToken |-> [secretsManager |-> Flat(p.githubToken.val)]]

amplifyApp(p) ==
    [appName |-> "universal-deep-research",
     sourceCodeProvider |->
        IF IsConnected(p) THEN {GitHubSourceCodeProvider(p)} ELSE {},
     buildSpec |-> buildSpec(p),
     environmentVariables |-> environmentVariables(p),
     role |-> "AmplifyServiceRole"]

mainBranch(p) ==
    [id |-> "MainBranch", autoBuild |-> TRUE, branchName |-> "main",
     environmentVariables |-> environmentVariables(p)]

\* the negation dropped
HasWebhookWhenRepo(p) == Truthy(p.githubRepo)

HasWebhook(p) == ~Truthy(p.githubRepo)

webhookBranch ==
    [id |-> "WebhookBranch", autoBuild |-> FALSE, branchName |-> "webhook"]

frontendUrl(p) == <<"https://", mainBranch(p).branchName, ".", AmplifyDomainToken>>

WebhookURL(p) ==
    <<"https://webhooks.amplify.", Flat(p.env.region.val),
      ".amazonaws.com/prod/webhooks?id=", AmplifyAppIdToken,
      "&token=<token>&operation=startbuild">>

FrontendOutputs(p) ==
    {[id |-> "FrontendURL", value |-> frontendUrl(p)],
     [id |-> "AmplifyAppId", value |-> <<AmplifyAppIdToken>>],
     [id |-> "AmplifyAppName", value |-> <<amplifyApp(p).appName>>]}
    \cup (IF HasWebhook(p)
          THEN {[id |-> "WebhookURL", value |-> WebhookURL(p)]}
          ELSE {})

\* new UDRFrontendStack(scope, id, props): the constructor never throws
UDRFrontendStack(p) ==
    [constructed |-> TRUE,
     error |-> "none",
     props |-> p,
     region |-> p.env.region,
     roles |-> {"AmplifyServiceRole"},
     amplifyApp |-> {amplifyApp(p)},
     branches |-> {mainBranch(p)}
                  \cup (IF HasWebhook(p) THEN {webhookBranch} ELSE {}),
     frontendUrl |-> frontendUrl(p),
     outputs |-> FrontendOutputs(p)]

-----------------------------------------------------------------------------
(* BedrockGatewayStack                                                     *)

gatewayUrl == <<"http://", GatewayDnsToken>>

BedrockGatewayStack(p) ==
    [constructed |-> TRUE,
     props |-> p,
     region |-> p.env.region,
     environment |-> [PORT |-> <<"8080">>, AWS_REGION |-> p.env.region.val],
     gatewayUrl |-> gatewayUrl,
     outputs |-> {[id |-> "GatewayURL", value |-> gatewayUrl],
                  [id |-> "GatewayURLExport", value |-> gatewayUrl]}]

-----------------------------------------------------------------------------
(* UDRBackendStack                                                         *)

\* the "/v1" suffix dropped
LlmBaseUrlNoSuffix(p) == p.gatewayUrl

LlmBaseUrl(p) == p.gatewayUrl \o <<"/v1">>

BackendEnvironment(p) ==
    [HOST |-> <<"0.0.0.0">>,
     PORT |-> <<"8000">>,
     LOG_LEVEL |-> <<"info">>,
     DEFAULT_MODEL |-> <<"claude-3-sonnet">>,
     LLM_BASE_URL |-> LlmBaseUrl(p),
     LLM_API_KEY_FILE |-> <<"/tmp/dummy_key.txt">>,
     TAVILY_API_KEY_FILE |-> <<"/tmp/tavily_key.txt">>,
     MAX_TOPICS |-> <<"3">>,
     MAX_SEARCH_PHRASES |-> <<"5">>]

\* BackendContainer healthCheck (seconds)
BackendContainerHealthCheck ==
    [command |-> <<"CMD-SHELL", "curl -f http://localhost:8000/ || exit 1">>,
     interval |-> 30, timeout |-> 5, retries |-> 3, startPeriod |-> 60]

\* BackendTargets healthCheck (seconds)
BackendTargetsHealthCheck ==
    [path |-> "/", healthyHttpCodes |-> "200", interval |-> 30, timeout |-> 5,
     healthyThresholdCount |-> 2, unhealthyThresholdCount |-> 3]

backendUrl == <<"http://", BackendDnsToken>>

UDRBackendStack(p) ==
    [constructed |-> TRUE,
     props |-> p,
     region |-> p.env.region,
     environment |-> BackendEnvironment(p),
     secrets |-> {"NVIDIA_API_KEY", "TAVILY_API_KEY"},
     containerHealthCheck |-> BackendContainerHealthCheck,
     targetHealthCheck |-> BackendTargetsHealthCheck,
     backendUrl |-> backendUrl,
     outputs |-> {[id |-> "BackendURL", value |-> backendUrl],
                  [id |-> "BackendALBArn", value |-> <<"${Token[BackendALB.Arn]}">>],
                  [id |-> "BackendClusterName", value |-> <<"udr-backend-cluster">>],
                  [id |-> "BackendServiceName", value |-> <<"udr-backend-service">>]}]

-----------------------------------------------------------------------------
(* app.ts                                                                  *)

Gateway == "BedrockGatewayStack"

Backend == "UDRBackendStack"

Frontend == "UDRFrontendStack"

Units == {Gateway, Backend, Frontend}

\* the operands of || exchanged: process.env wins over the context
EnvironmentPreferringProcess(c, e) ==
    [account |-> OrElse(e.CDK_DEFAULT_ACCOUNT, c.account),
     region |-> OrElse(OrElse(e.CDK_DEFAULT_REGION, c.region), Lit("us-east-1"))]

\* const env: cdk.Environment = { account: ... || ..., region: ... || ... || 'us-east-1' }
Environment(c, e) ==
    [account |-> OrElse(c.account, e.CDK_DEFAULT_ACCOUNT),
     region |-> OrElse(OrElse(c.region, e.CDK_DEFAULT_REGION), Lit("us-east-1"))]

\* the first addDependency call left out
AppDependenciesBackendOnly == {<<Frontend, Backend>>}

\* the second addDependency call left out
AppDependenciesGatewayOnly == {<<Backend, Gateway>>}

\* receiver and argument of addDependency exchanged
AppDependenciesReversed == {<<Gateway, Backend>>, <<Backend, Frontend>>}

\* backendStack.addDependency(gatewayStack); frontendStack.addDependency(backendStack)
AppDependencies == {<<Backend, Gateway>>, <<Frontend, Backend>>}

ResolveEnvironment ==
    /\ pc = "env"
    /\ env' = Environment(ctx, penv)
    /\ pc' = "gateway"
    /\ UNCHANGED <<ctx, penv, gatewayStack, backendStack, frontendStack,
                   dependencies, assembly, prevAssembly, prevPenv, synthRuns, props, build, health>>
    /\ UNCHANGED deployVars

NewGatewayStack ==
    /\ pc = "gateway"
    /\ gatewayStack' = BedrockGatewayStack([env |-> env])
    /\ pc' = "backend"
    /\ UNCHANGED <<ctx, penv, env, backendStack, frontendStack,
                   dependencies, assembly, prevAssembly, prevPenv, synthRuns, props, build, health>>
    /\ UNCHANGED deployVars

NewBackendStack ==
    /\ pc = "backend"
    /\ backendStack' = UDRBackendStack([gatewayUrl |-> gatewayStack.gatewayUrl,
                                        env |-> env])
    /\ pc' = "frontend"
    /\ UNCHANGED <<ctx, penv, env, gatewayStack, frontendStack,
                   dependencies, assembly, prevAssembly, prevPenv, synthRuns, props, build, health>>
    /\ UNCHANGED deployVars

NewFrontendStack ==
    /\ pc = "frontend"
    /\ frontendStack' = UDRFrontendStack(
            [backendUrl |-> Some(backendStack.backendUrl),
             githubRepo |-> ctx.github_repo,
             githubToken |-> ctx.github_token_secret,
             env |-> env])
    /\ pc' = "deps"
    /\ UNCHANGED <<ctx, penv, env, gatewayStack, backendStack,
                   dependencies, assembly, prevAssembly, prevPenv, synthRuns, props, build, health>>
    /\ UNCHANGED deployVars

AddDependencies ==
    /\ pc = "deps"
    /\ dependencies' = AppDependencies
    /\ pc' = "synth"
    /\ UNCHANGED <<ctx, penv, env, gatewayStack, backendStack, frontendStack,
                   assembly, prevAssembly, prevPenv, synthRuns, props, build, health>>
    /\ UNCHANGED deployVars

NoAssembly == [synthesized |-> FALSE]

Synth ==
    /\ pc = "synth"
    /\ assembly' = [synthesized |-> TRUE,
                    stacks |-> (Gateway :> gatewayStack) @@ (Backend :> backendStack)
                               @@ (Frontend :> frontendStack),
                    dependencies |-> dependencies]
    /\ synthRuns' = synthRuns + 1
    /\ pc' = "done"
    /\ UNCHANGED <<ctx, penv, env, gatewayStack, backendStack, frontendStack,
                   dependencies, prevAssembly, prevPenv, props, build, health>>
    /\ UNCHANGED deployVars

-----------------------------------------------------------------------------
(* Running app.ts again (cdk synth, cdk diff, cdk deploy all execute it)   *)

MaxSynths == 2

ProcessEnvs ==
    [CDK_DEFAULT_ACCOUNT : {Undefined, Lit("222222222222")},
     CDK_DEFAULT_REGION : {Undefined, Lit("ap-south-1")}]

Contexts ==
    [account : {Undefined, Lit("111111111111")},
     region : {Undefined, Lit("eu-west-1")},
     github_repo : {Undefined, Some(<<"alice", "/", "udr">>)},
     github_token_secret : {Undefined, Lit("github-token")}]

\* the same command line (context) in a process whose environment may differ
RunAppAgain ==
    /\ pc = "done"
    /\ mode = "idle"
    /\ synthRuns < MaxSynths
    /\ prevAssembly' = assembly
    /\ prevPenv' = penv
    /\ penv' \in ProcessEnvs
    /\ pc' = "env"
    /\ env' = Undefined
    /\ gatewayStack' = NoStack
    /\ backendStack' = NoStack
    /\ frontendStack' = NoStack
    /\ dependencies' = {}
    /\ assembly' = NoAssembly
    /\ UNCHANGED <<ctx, synthRuns, props, build, health>>
    /\ UNCHANGED deployVars

-----------------------------------------------------------------------------
(* The provisioning tool: deploy and destroy of the synthesized stacks     *)

MaxDeploys == 2

NumHosts == 2

\* values the platform may assign to a unit's endpoint attribute
AttrValues(u) ==
    {(IF u = Gateway THEN "gw-" ELSE IF u = Backend THEN "be-" ELSE "app-")
        \o ToString(i) : i \in 1..NumHosts}

TokenValue(piece, at) ==
    IF piece = GatewayDnsToken THEN at[Gateway] \o ".elb.amazonaws.com"
    ELSE IF piece = BackendDnsToken THEN at[Backend] \o ".elb.amazonaws.com"
    ELSE IF piece = AmplifyDomainToken THEN at[Frontend] \o ".amplifyapp.com"
    ELSE IF piece = AmplifyAppIdToken THEN at[Frontend]
    ELSE piece

Resolve(s, at) == Flat([i \in 1..Len(s) |-> TokenValue(s[i], at)])

StackEnvironment(u) ==
    IF u = Frontend
    THEN (CHOOSE a \in assembly.stacks[u].amplifyApp : TRUE).environmentVariables
    ELSE assembly.stacks[u].environment

StackUrl(u) ==
    IF u = Gateway THEN assembly.stacks[u].gatewayUrl
    ELSE IF u = Backend THEN assembly.stacks[u].backendUrl
    ELSE assembly.stacks[u].frontendUrl

NotDeployed == [url |-> ""]

\* the configuration a unit gets when it is provisioned: its template with the
\* tokens replaced by the attribute values known at that moment
Provisioned(u, at) ==
    [url |-> Resolve(StackUrl(u), at),
     environment |-> [k \in DOMAIN StackEnvironment(u) |->
                        Resolve(StackEnvironment(u)[k], at)]]

\* a live reference: every unit that exists follows the new attribute values
BakeLive(u, at) ==
    [v \in Units |-> IF v = u \/ live[v] THEN Provisioned(v, at) ELSE deployed[v]]

Bake(u, at) == [deployed EXCEPT ![u] = Provisioned(u, at)]

DependenciesOf(u) == {d \in Units : <<u, d>> \in assembly.dependencies}

DependentsOf(u) == {d \in Units : <<d, u>> \in assembly.dependencies}

AllPending == [u \in Units |-> "pending"]

\* no probe has failed or passed yet
Healthy == [status |-> "healthy", streak |-> 0]

StartDeploy ==
    /\ pc = "done"
    /\ mode = "idle"
    /\ deployRuns < MaxDeploys
    /\ mode' = "deploy"
    /\ phase' = AllPending
    /\ deployRuns' = deployRuns + 1
    /\ UNCHANGED <<live, attrs, deployed, removed, props, build, health>>
    /\ UNCHANGED synthVars

BeginProvision(u) ==
    /\ mode = "deploy"
    /\ phase[u] = "pending"
    /\ \A d \in DependenciesOf(u) : phase[d] = "provisioned"
    /\ phase' = [phase EXCEPT ![u] = "provisioning"]
    /\ UNCHANGED <<mode, live, attrs, deployed, removed, deployRuns, props, build, health>>
    /\ UNCHANGED synthVars

FinishProvision(u, a) ==
    /\ mode = "deploy"
    /\ phase[u] = "provisioning"
    /\ a \in AttrValues(u)
    /\ phase' = [phase EXCEPT ![u] = "provisioned"]
    /\ live' = [live EXCEPT ![u] = TRUE]
    /\ attrs' = [attrs EXCEPT ![u] = a]
    /\ deployed' = Bake(u, [attrs EXCEPT ![u] = a])
    /\ UNCHANGED <<mode, removed, deployRuns, props, build, health>>
    /\ UNCHANGED synthVars

\* ProvisioningFailure: the unit is rolled back to what it was before
FailProvision(u) ==
    /\ mode = "deploy"
    /\ phase[u] = "provisioning"
    /\ phase' = [phase EXCEPT ![u] = "failed"]
    /\ UNCHANGED <<mode, live, attrs, deployed, removed, deployRuns, props, build, health>>
    /\ UNCHANGED synthVars

EndDeploy ==
    /\ mode = "deploy"
    /\ \A u \in Units : phase[u] # "provisioning"
    /\ \A u \in Units : ~ENABLED BeginProvision(u)
    /\ mode' = "idle"
    /\ UNCHANGED <<phase, live, attrs, deployed, removed, deployRuns, props, build, health>>
    /\ UNCHANGED synthVars

StartTeardown ==
    /\ pc = "done"
    /\ mode = "idle"
    /\ \E u \in Units : live[u]
    /\ mode' = "teardown"
    /\ phase' = AllPending
    /\ removed' = <<>>
    /\ UNCHANGED <<live, attrs, deployed, deployRuns, props, build, health>>
    /\ UNCHANGED synthVars

Remove(u) ==
    /\ mode = "teardown"
    /\ live[u]
    /\ \A d \in DependentsOf(u) : ~live[d]
    /\ live' = [live EXCEPT ![u] = FALSE]
    /\ attrs' = [attrs EXCEPT ![u] = ""]
    /\ deployed' = [deployed EXCEPT ![u] = NotDeployed]
    /\ removed' = Append(removed, u)
    /\ build' = (IF u = Frontend THEN "none" ELSE build)
    /\ health' = [health EXCEPT ![u] = Healthy]
    /\ UNCHANGED <<mode, phase, deployRuns, props>>
    /\ UNCHANGED synthVars

EndTeardown ==
    /\ mode = "teardown"
    /\ \A u \in Units : ~live[u]
    /\ mode' = "idle"
    /\ UNCHANGED <<phase, live, attrs, deployed, removed, deployRuns, props, build, health>>
    /\ UNCHANGED synthVars

-----------------------------------------------------------------------------
(* Specifications                                                          *)

NoDeployment ==
    /\ mode = "idle"
    /\ phase = AllPending
    /\ live = [u \in Units |-> FALSE]
    /\ attrs = [u \in Units |-> ""]
    /\ deployed = [u \in Units |-> NotDeployed]
    /\ removed = <<>>
    /\ deployRuns = 0
    /\ build = "none"
    /\ health = [u \in Units |-> Healthy]

NoProps == [backendUrl |-> Undefined, githubRepo |-> Undefined,
            githubToken |-> Undefined,
            env |-> [account |-> Undefined, region |-> Lit("us-east-1")]]

Start ==
    /\ pc = "env"
    /\ env = Undefined
    /\ gatewayStack = NoStack
    /\ backendStack = NoStack
    /\ frontendStack = NoStack
    /\ dependencies = {}
    /\ assembly = NoAssembly
    /\ prevAssembly = NoAssembly
    /\ prevPenv = penv
    /\ synthRuns = 0
    /\ props = NoProps
    /\ NoDeployment

\* process.env of the deployments: the account is configured, the region is not
DeployProcessEnv ==
    [CDK_DEFAULT_ACCOUNT |-> Lit("222222222222"), CDK_DEFAULT_REGION |-> Undefined]

RunApp ==
    \/ ResolveEnvironment
    \/ NewGatewayStack
    \/ NewBackendStack
    \/ NewFrontendStack
    \/ AddDependencies
    \/ Synth

(* app.ts once, then deployments and teardowns of what it synthesized *)
Init ==
    /\ ctx \in Contexts
    /\ penv = DeployProcessEnv
    /\ Start

Next ==
    \/ RunApp
    \/ StartDeploy
    \/ \E u \in Units : BeginProvision(u)
    \/ \E u \in Units : \E a \in AttrValues(u) : FinishProvision(u, a)
    \/ \E u \in Units : FailProvision(u)
    \/ EndDeploy
    \/ StartTeardown
    \/ \E u \in Units : Remove(u)
    \/ EndTeardown

Spec == Init /\ [][Next]_vars

(* app.ts run repeatedly with the same context *)
InitSynth ==
    /\ ctx \in Contexts
    /\ penv \in ProcessEnvs
    /\ Start

NextSynth == RunApp \/ RunAppAgain

SpecSynth == InitSynth /\ [][NextSynth]_vars

(* new UDRFrontendStack(...) on its own, with any props *)
FrontendProps ==
    [backendUrl : {Undefined, Lit(""), Lit("http://backend.example"), Some(backendUrl)},
     githubRepo : {Undefined, Lit(""), Some(<<"alice", "/", "udr">>), Some(<<"udr">>)},
     githubToken : {Undefined, Lit(""), Lit("github-token")},
     env : [account : {Undefined},
            region : {Lit("us-east-1"), Lit("eu-west-1")}]]

ConstructFrontend ==
    /\ pc = "construct"
    /\ frontendStack' = UDRFrontendStack(props)
    /\ pc' = "constructed"
    /\ UNCHANGED <<ctx, penv, env, gatewayStack, backendStack, dependencies,
                   assembly, prevAssembly, prevPenv, synthRuns, props, build, health>>
    /\ UNCHANGED deployVars

InitFrontend ==
    /\ pc = "construct"
    /\ props \in FrontendProps
    /\ ctx = [account |-> Undefined, region |-> Undefined,
              github_repo |-> props.githubRepo,
              github_token_secret |-> props.githubToken]
    /\ penv = DeployProcessEnv
    /\ env = props.env
    /\ gatewayStack = NoStack
    /\ backendStack = NoStack
    /\ frontendStack = NoStack
    /\ dependencies = {}
    /\ assembly = NoAssembly
    /\ prevAssembly = NoAssembly
    /\ prevPenv = penv
    /\ synthRuns = 0
    /\ NoDeployment

NextFrontend == ConstructFrontend

SpecFrontend == InitFrontend /\ [][NextFrontend]_vars

-----------------------------------------------------------------------------
(* The hosting platform's builds of the frontend                           *)

DeployedFrontendApp == CHOOSE a \in assembly.stacks[Frontend].amplifyApp : TRUE

\* the tracked branch builds on a push when the app is bound to a repository
BuildsOnPush ==
    /\ DeployedFrontendApp.sourceCodeProvider # {}
    /\ \E b \in assembly.stacks[Frontend].branches :
          b.branchName = "main" /\ b.autoBuild

\* a BuildFailure undoes the unit
OnBuildFailureRollback ==
    /\ live' = [live EXCEPT ![Frontend] = FALSE]
    /\ attrs' = [attrs EXCEPT ![Frontend] = ""]
    /\ deployed' = [deployed EXCEPT ![Frontend] = NotDeployed]
    /\ UNCHANGED <<mode, phase, removed, deployRuns>>

\* what a BuildFailure does to the provisioned units: nothing
OnBuildFailure == UNCHANGED deployVars

PushTriggersBuild ==
    /\ pc = "done"
    /\ live[Frontend]
    /\ BuildsOnPush
    /\ build # "running"
    /\ build' = "running"
    /\ UNCHANGED <<props, health>>
    /\ UNCHANGED synthVars
    /\ UNCHANGED deployVars

\* aws amplify start-job --branch-name main --job-type RELEASE
ManualBuild ==
    /\ pc = "done"
    /\ live[Frontend]
    /\ build # "running"
    /\ build' = "running"
    /\ UNCHANGED <<props, health>>
    /\ UNCHANGED synthVars
    /\ UNCHANGED deployVars

BuildSucceeds ==
    /\ build = "running"
    /\ build' = "succeeded"
    /\ UNCHANGED <<props, health>>
    /\ UNCHANGED synthVars
    /\ UNCHANGED deployVars

BuildFails ==
    /\ build = "running"
    /\ build' = "failed"
    /\ OnBuildFailure
    /\ UNCHANGED <<props, health>>
    /\ UNCHANGED synthVars

\* deployments with the default account and region
PlainContexts == {c \in Contexts : ~c.account.defined /\ ~c.region.defined}

InitBuild ==
    /\ ctx \in PlainContexts
    /\ penv = DeployProcessEnv
    /\ Start

NextBuild ==
    \/ Next
    \/ PushTriggersBuild
    \/ ManualBuild
    \/ BuildSucceeds
    \/ BuildFails

SpecBuild == InitBuild /\ [][NextBuild]_vars

-----------------------------------------------------------------------------
(* Health probes of the deployed services                                  *)

\* the services for which the stacks declare a health check: BackendTargets
\* (GatewayTargets declares none)
Services == {Backend}

TargetHealthCheck(u) == assembly.stacks[u].targetHealthCheck

\* streak > 0: consecutive failed probes; streak < 0: consecutive passed probes
AfterFailedProbe(h, hc) ==
    LET n == IF h.streak < 0 THEN 1
             ELSE IF h.streak < hc.unhealthyThresholdCount THEN h.streak + 1
             ELSE h.streak
    IN  [status |-> IF n >= hc.unhealthyThresholdCount THEN "degraded" ELSE h.status,
         streak |-> n]

AfterPassedProbe(h, hc) ==
    LET n == IF h.streak > 0 THEN 0 - 1
             ELSE IF 0 - h.streak < hc.healthyThresholdCount THEN h.streak - 1
             ELSE h.streak
    IN  [status |-> IF 0 - n >= hc.healthyThresholdCount THEN "healthy" ELSE h.status,
         streak |-> n]

\* a HealthCheckFailure rolls the unit back
OnHealthCheckFailureRollback(u) ==
    /\ live' = [live EXCEPT ![u] = FALSE]
    /\ attrs' = [attrs EXCEPT ![u] = ""]
    /\ deployed' = [deployed EXCEPT ![u] = NotDeployed]
    /\ UNCHANGED <<mode, phase, removed, deployRuns>>

\* what a failed probe does to the provisioned units: nothing
OnHealthCheckFailure(u) == UNCHANGED deployVars

ProbeFails(u) ==
    /\ pc = "done"
    /\ u \in Services
    /\ live[u]
    /\ health' = [health EXCEPT ![u] = AfterFailedProbe(@, TargetHealthCheck(u))]
    /\ health' # health
    /\ OnHealthCheckFailure(u)
    /\ UNCHANGED <<props, build>>
    /\ UNCHANGED synthVars

ProbePasses(u) ==
    /\ pc = "done"
    /\ u \in Services
    /\ live[u]
    /\ health' = [health EXCEPT ![u] = AfterPassedProbe(@, TargetHealthCheck(u))]
    /\ health' # health
    /\ UNCHANGED <<props, build>>
    /\ UNCHANGED synthVars
    /\ UNCHANGED deployVars

InitHealth ==
    /\ ctx \in PlainContexts
    /\ penv = DeployProcessEnv
    /\ Start

NextHealth ==
    \/ Next
    \/ \E u \in Services : ProbeFails(u)
    \/ \E u \in Services : ProbePasses(u)

SpecHealth == InitHealth /\ [][NextHealth]_vars

-----------------------------------------------------------------------------
(* Properties                                                              *)

\* the provisioning chain of the design: each unit consumes the URL of the one before
Upstream(u) == IF u = Frontend THEN Backend ELSE Gateway

Downstream == {Backend, Frontend}

Started(u) == phase[u] \in {"provisioning", "provisioned", "failed"}

OutputResolved(u) ==
    /\ live[u]
    /\ phase[u] = "provisioned"
    /\ attrs[u] # ""
    /\ deployed[u].url # ""

Compose(r, t) == {<<a[1][1], a[2][2]>> : a \in {b \in r \X t : b[1][2] = b[2][1]}}

Closure(r) == r \cup Compose(r, r) \cup Compose(Compose(r, r), r)

Acyclic(r) == \A u \in Units : <<u, u>> \notin Closure(r)

FrontendApp == CHOOSE a \in frontendStack.amplifyApp : TRUE

(* C1: provisioning proceeds strictly Gateway -> Backend -> Frontend.  A stack
   is constructed only after its predecessor, from the predecessor's non-empty
   URL; a unit starts provisioning only when its predecessor's output URL is
   resolved and non-empty; the declared dependencies are the acyclic chain. *)
C1_StrictProvisioningOrder ==
    /\ backendStack.constructed =>
          /\ gatewayStack.constructed
          /\ Flat(gatewayStack.gatewayUrl) # ""
          /\ backendStack.props.gatewayUrl = gatewayStack.gatewayUrl
    /\ frontendStack.constructed =>
          /\ backendStack.constructed
          /\ Flat(backendStack.backendUrl) # ""
          /\ frontendStack.props.backendUrl = Some(backendStack.backendUrl)
    /\ \A u \in Downstream : Started(u) => OutputResolved(Upstream(u))
    /\ assembly.synthesized =>
          /\ assembly.dependencies = {<<u, Upstream(u)>> : u \in Downstream}
          /\ Acyclic(assembly.dependencies)

C1_Witness ==
    /\ phase[Frontend] = "provisioning"
    /\ OutputResolved(Backend)
    /\ OutputResolved(Gateway)

ExactlyOneSupplied(p) == Truthy(p.githubRepo) # Truthy(p.githubToken)

NeitherSupplied(p) == ~Truthy(p.githubRepo) /\ ~Truthy(p.githubToken)

BothSupplied(p) == Truthy(p.githubRepo) /\ Truthy(p.githubToken)

(* C2: with exactly one of repository identifier and credential reference
   supplied, construction raises ConfigurationFailure and creates no role,
   hosting application or branch. *)
C2_OneSidedPairRejected ==
    (pc = "constructed" /\ ExactlyOneSupplied(props)) =>
        /\ frontendStack.error = "ConfigurationFailure"
        /\ frontendStack.roles = {}
        /\ frontendStack.amplifyApp = {}
        /\ frontendStack.branches = {}

(* C3: NEXT_PUBLIC_DRY_RUN is "true" when no backend URL is supplied and
   "false" when one is, on the connected and on the disconnected path. *)
C3_DryRunTracksBackendUrl ==
    pc = "constructed" =>
        \A a \in frontendStack.amplifyApp :
            Flat(a.environmentVariables.NEXT_PUBLIC_DRY_RUN)
                = (IF Truthy(props.backendUrl) THEN "false" ELSE "true")

(* C6: the backend container's LLM_BASE_URL is the gateway's URL followed by
   "/v1" and the frontend build's NEXT_PUBLIC_BACKEND_BASE_URL is the backend's
   URL, in the synthesized stacks and in the units as provisioned. *)
C6_EndpointPropagation ==
    /\ backendStack.constructed =>
          backendStack.environment.LLM_BASE_URL = gatewayStack.gatewayUrl \o <<"/v1">>
    /\ frontendStack.constructed =>
          /\ FrontendApp.environmentVariables.NEXT_PUBLIC_BACKEND_BASE_URL
                = backendStack.backendUrl
          /\ \A b \in frontendStack.branches : b.id = "MainBranch" =>
                b.environmentVariables.NEXT_PUBLIC_BACKEND_BASE_URL
                    = backendStack.backendUrl
    /\ phase[Backend] = "provisioned" =>
          deployed[Backend].environment.LLM_BASE_URL = deployed[Gateway].url \o "/v1"
    /\ phase[Frontend] = "provisioned" =>
          /\ deployed[Frontend].environment.NEXT_PUBLIC_BACKEND_BASE_URL
                = deployed[Backend].url
          /\ deployed[Frontend].environment.NEXT_PUBLIC_BACKEND_BASE_URL
                # "http://localhost:8000"

C6_Witness ==
    /\ phase[Frontend] = "provisioned"
    /\ deployed[Backend].environment.LLM_BASE_URL = "http://gw-2.elb.amazonaws.com/v1"
    /\ deployed[Frontend].environment.NEXT_PUBLIC_BACKEND_BASE_URL
          = "http://be-1.elb.amazonaws.com"

HasOutput(stack, id) == \E o \in stack.outputs : o.id = id

(* C7: with neither repository identifier nor credential reference supplied,
   construction succeeds on the disconnected path: the hosting application has
   no repository binding, the main branch exists and a WebhookURL output is
   exposed. *)
C7_DisconnectedPath ==
    (pc = "constructed" /\ NeitherSupplied(props)) =>
        /\ frontendStack.error = "none"
        /\ Cardinality(frontendStack.amplifyApp) = 1
        /\ FrontendApp.sourceCodeProvider = {}
        /\ \E b \in frontendStack.branches : b.branchName = "main"
        /\ HasOutput(frontendStack, "WebhookURL")

C7_Witness ==
    /\ pc = "constructed"
    /\ props.githubRepo = Undefined
    /\ props.githubToken = Undefined
    /\ HasOutput(frontendStack, "WebhookURL")

(* C8: the repository binding exists if and only if both the repository
   identifier and the credential reference are supplied; it then uses the
   credential looked up by name and the main branch builds on push; in every
   other case the application has no repository binding. *)
C8_ConnectedIffBoth ==
    pc = "constructed" =>
        /\ Cardinality(frontendStack.amplifyApp) = 1
        /\ FrontendApp.sourceCodeProvider # {} <=> BothSupplied(props)
        /\ \A g \in FrontendApp.sourceCodeProvider :
              /\ g.oauthToken = [secretsManager |-> Flat(props.githubToken.val)]
              /\ g.owner = Index(Split(props.githubRepo.val), 0)
              /\ \E b \in frontendStack.branches :
                    b.branchName = "main" /\ b.autoBuild

C8_Witness ==
    /\ pc = "constructed"
    /\ \E g \in FrontendApp.sourceCodeProvider :
          /\ g.owner = Some(<<"alice">>)
          /\ g.repository = Some(<<"udr">>)
          /\ g.oauthToken = [secretsManager |-> "github-token"]

\* the units after u in the provisioning chain
ChainAfter(u) ==
    IF u = Gateway THEN {Backend, Frontend}
    ELSE IF u = Backend THEN {Frontend}
    ELSE {}

NewCommand == mode = "idle" /\ mode' \in {"deploy", "teardown"}

(* C4: when a unit's provisioning fails, the unit stays aborted for the rest of
   the deployment, no unit after it in the chain starts provisioning, and no
   unit that exists is removed except by a teardown. *)
C4_FailureIsolation ==
    /\ [](\A u \in Units : phase[u] = "failed" =>
              \A v \in ChainAfter(u) : phase[v] = "pending")
    /\ [][\A u \in Units :
              (phase[u] = "failed" /\ phase'[u] # "failed") => NewCommand]_vars
    /\ [][\A u \in Units : (live[u] /\ ~live'[u]) => mode = "teardown"]_vars

C4_Witness ==
    /\ mode = "idle"
    /\ phase[Backend] = "failed"
    /\ phase[Frontend] = "pending"
    /\ live[Gateway]
    /\ ~live[Backend]

IsPrefix(s, t) == Len(s) <= Len(t) /\ \A i \in 1..Len(s) : s[i] = t[i]

(* C5: teardown removes the units in reverse dependency order.  No unit is
   removed while a unit after it in the chain exists, and a teardown of all
   three units removes Frontend, then Backend, then Gateway. *)
C5_ReverseTeardown ==
    /\ \A v \in Downstream : live[v] => live[Upstream(v)]
    /\ \A i, j \in DOMAIN removed : i < j => removed[j] \notin ChainAfter(removed[i])
    /\ ({removed[i] : i \in DOMAIN removed} \cup {u \in Units : live[u]} = Units
            /\ mode = "teardown")
          => IsPrefix(removed, <<Frontend, Backend, Gateway>>)

C5_Witness ==
    /\ mode = "teardown"
    /\ removed = <<Frontend, Backend, Gateway>>

ProvisionedNow(u) == phase[u] = "provisioning" /\ phase'[u] = "provisioned"

(* C10: the configuration of a unit that exists changes only in a step that
   provisions that unit; a change of the upstream unit's URL leaves it as it
   was. *)
C10_CopyFixedAtProvisioning ==
    [][\A u \in Units :
          (live[u] /\ live'[u] /\ ~ProvisionedNow(u)) => deployed'[u] = deployed[u]]_vars

\* the gateway's URL has changed and the backend still holds the old one
C10_Witness ==
    /\ live[Gateway]
    /\ live[Backend]
    /\ phase[Gateway] = "provisioned"
    /\ deployed[Backend].environment.LLM_BASE_URL # deployed[Gateway].url \o "/v1"

RanTwice == pc = "done" /\ synthRuns >= 2

(* C9 as stated: two runs of app.ts with the same context values produce the
   same assembly. *)
C9_SameContextSameGraph == RanTwice => assembly = prevAssembly

\* for account and region: the context supplies the value, or process.env agrees
AmbientAgrees ==
    /\ Truthy(ctx.account) \/ penv.CDK_DEFAULT_ACCOUNT = prevPenv.CDK_DEFAULT_ACCOUNT
    /\ Truthy(ctx.region) \/ penv.CDK_DEFAULT_REGION = prevPenv.CDK_DEFAULT_REGION

(* C9 amended: two runs of app.ts with the same context values produce the
   same assembly when, for account and region, the context supplies the value
   or CDK_DEFAULT_ACCOUNT / CDK_DEFAULT_REGION is the same in both runs. *)
C9_SameInputsSameGraph == (RanTwice /\ AmbientAgrees) => assembly = prevAssembly

C9_Witness ==
    /\ RanTwice
    /\ Truthy(ctx.region)
    /\ ~Truthy(ctx.account)
    /\ penv.CDK_DEFAULT_REGION # prevPenv.CDK_DEFAULT_REGION
    /\ penv.CDK_DEFAULT_ACCOUNT = prevPenv.CDK_DEFAULT_ACCOUNT
    /\ assembly = prevAssembly

HasWebhookBranch(stack) ==
    \E b \in stack.branches : b.branchName = "webhook" /\ ~b.autoBuild

(* C12: the non-auto-building placeholder branch and the WebhookURL output
   exist exactly when the disconnected path is taken: in every construction
   without repository binding and in none with one. *)
C12_WebhookIffDisconnected ==
    pc = "constructed" =>
        /\ HasWebhookBranch(frontendStack) <=> FrontendApp.sourceCodeProvider = {}
        /\ HasOutput(frontendStack, "WebhookURL") <=> FrontendApp.sourceCodeProvider = {}

ShellExists(stack) ==
    /\ stack.error = "none"
    /\ stack.roles # {}
    /\ stack.amplifyApp # {}
    /\ \E b \in stack.branches : b.branchName = "main"

BuildFailsNow == build # "failed" /\ build' = "failed"

(* C11: a BuildFailure never aborts or undoes the provisioning of the frontend.
   The constructor accepts its inputs and declares the application shell; the
   step in which a build fails changes nothing of the provisioned units; the
   frontend is removed only by a teardown; and while the frontend is being
   provisioned its provisioning can succeed whatever the state of the build. *)
C11_BuildFailureNotFatal ==
    /\ [](frontendStack.constructed => ShellExists(frontendStack))
    /\ [][BuildFailsNow => UNCHANGED deployVars]_vars
    /\ [][(live[Frontend] /\ ~live'[Frontend]) => mode = "teardown"]_vars
    /\ [](build # "none" => live[Frontend])
    /\ [](phase[Frontend] = "provisioning" =>
            \A a \in AttrValues(Frontend) : ENABLED FinishProvision(Frontend, a))

\* a build of the frontend has failed and the frontend is being provisioned again
C11_Witness ==
    /\ build = "failed"
    /\ live[Frontend]
    /\ mode = "deploy"
    /\ phase[Frontend] = "provisioning"

Degraded(u) == health[u].status = "degraded"

BecomesDegraded(u) == ~Degraded(u) /\ health'[u].status = "degraded"

(* C13: a HealthCheckFailure of a deployed service is not fatal.  The step in
   which a service becomes degraded changes nothing of the provisioned units;
   a degraded unit stays provisioned; no unit is removed except by a teardown;
   and a unit whose predecessor is provisioned can start provisioning, and a
   unit being provisioned can succeed, whatever the health of any service. *)
C13_HealthCheckFailureNotFatal ==
    /\ [][(\E u \in Services : BecomesDegraded(u)) => UNCHANGED deployVars]_vars
    /\ [](\A u \in Services : Degraded(u) => live[u])
    /\ [][\A u \in Units : (live[u] /\ ~live'[u]) => mode = "teardown"]_vars
    /\ [](\A v \in Downstream :
            (mode = "deploy" /\ phase[v] = "pending"
                /\ phase[Upstream(v)] = "provisioned")
            => ENABLED BeginProvision(v))
    /\ [](\A v \in Units : phase[v] = "provisioning" =>
            \A a \in AttrValues(v) : ENABLED FinishProvision(v, a))

\* the backend is degraded and the frontend is about to start provisioning
C13_Witness ==
    /\ mode = "deploy"
    /\ Degraded(Backend)
    /\ health[Backend].streak = BackendTargetsHealthCheck.unhealthyThresholdCount
    /\ phase[Backend] = "provisioned"
    /\ phase[Frontend] = "pending"

====
